---------------------------- MODULE Spec2Model ----------------------------
(***************************************************************************)
(* Forklift lift controller (main.cpp): FaultManager, LiftPlant,           *)
(* LiftController::update and the scan loop of main.                       *)
(*                                                                         *)
(* Units.  The doubles of the program are modelled in fixed point:         *)
(*   velocity, targetVel : 1/1000 unit per second  (0.35 -> 350)           *)
(*   position            : 1/50000 unit            (1.0  -> 50000)         *)
(* so that with dt = 0.02 s the integration  position += velocity * dt     *)
(* adds exactly `velocity` position units, and accel * dt = 0.06 -> 60.    *)
(* loadKg is in whole kilograms.                                           *)
(***************************************************************************)
EXTENDS Integers, Sequences, FiniteSets

VARIABLES
    state,            \* LiftController::state
    latched,          \* LiftController::faults.latched
    lastTopLimit,     \* LiftController::lastTopLimit
    lastBottomLimit,  \* LiftController::lastBottomLimit
    position,         \* LiftPlant::position
    velocity,         \* LiftPlant::velocity
    targetVel,        \* LiftPlant::targetVel
    in,               \* the Inputs snapshot (main's `in`, update's argument)
    out,              \* the Outputs returned by the last update (main's `out`)
    inputPoll,        \* main's static inputPoll, modulo PollPeriod
    quit,             \* main's quit flag
    pre,              \* history: controller/plant on entry to the last update
    fmTrace,          \* history: values of latched since the last clear()
    faultScans        \* history: consecutive loop scans ended with a fault latched

vars == <<state, latched, lastTopLimit, lastBottomLimit, position, velocity,
          targetVel, in, out, inputPoll, quit, pre, fmTrace, faultScans>>

---------------------------------------------------------------------------
(* FaultCode, with its numeric value as priority *)

None == 0
LimitViolation == 10
Overload == 20
EmergencyStop == 30

FaultCode == {None, LimitViolation, Overload, EmergencyStop}

faultPriority(f) == f

(* LiftState *)

Holding == "Holding"
Lifting == "Lifting"
Lowering == "Lowering"
Faulted == "Faulted"

LiftState == {Holding, Lifting, Lowering, Faulted}

(* LiftController tunables and plant constants, in model units *)

maxLoadKg == 1200
liftSpeed == 350
lowerSpeed == 300
safeStopSpeedEps == 10
accel == 3
DtInv == 50
PosMax == 50000
BottomSwitch == 5
TopSwitch == 49995
PollPeriod == 25

Abs(x) == IF x < 0 THEN 0 - x ELSE x

Clamp(x, lo, hi) == IF x < lo THEN lo ELSE IF x > hi THEN hi ELSE x

---------------------------------------------------------------------------
(* Inputs{} and Outputs{} as default-constructed *)

InputsInit ==
    [cmdUp |-> FALSE, cmdDown |-> FALSE, cmdHold |-> FALSE, estop |-> FALSE,
     resetFault |-> FALSE, topLimit |-> FALSE, bottomLimit |-> TRUE,
     loadKg |-> 0]

OutputsInit ==
    [motorEnable |-> FALSE, motorDir |-> 0, brakeEngaged |-> TRUE,
     faultLamp |-> FALSE]

---------------------------------------------------------------------------
(* FaultManager *)

\* mutant: the latest fault wins, whatever its priority
LatchLast(l, f) == IF f # None THEN f ELSE l

\* latch(f) applied to a manager holding l: the new value of latched
Latch(l, f) == IF faultPriority(f) > faultPriority(l) THEN f ELSE l

\* clear()
Clear == None

hasFault(l) == l # None

---------------------------------------------------------------------------
(* LiftController::update, step by step *)

\* Step 1, first test: E-stop
LatchEstop(l, i) == IF i.estop THEN Latch(l, EmergencyStop) ELSE l

\* mutant: the overload boundary taken as >=
LatchOverloadNonStrict(l, i) ==
    IF i.loadKg >= maxLoadKg THEN Latch(l, Overload) ELSE l

\* Step 1, second test: overload
LatchOverload(l, i) ==
    IF i.loadKg > maxLoadKg THEN Latch(l, Overload) ELSE l

\* mutant: the two command-into-limit tests are missing
LatchLimitsStateOnly(st, l, i) ==
    IF i.topLimit /\ i.bottomLimit
    THEN Latch(l, LimitViolation)
    ELSE IF (st = Lifting /\ i.topLimit) \/ (st = Lowering /\ i.bottomLimit)
         THEN Latch(l, LimitViolation)
         ELSE l

\* mutant: the two tests on the state left by the previous scan are missing
LatchLimitsCmdOnly(st, l, i) ==
    IF i.topLimit /\ i.bottomLimit
    THEN Latch(l, LimitViolation)
    ELSE IF (i.cmdUp /\ i.topLimit) \/ (i.cmdDown /\ i.bottomLimit)
         THEN Latch(l, LimitViolation)
         ELSE l

\* Step 1, limit consistency and commanding into a limit; st is the state
\* left by the previous scan
LatchLimits(st, l, i) ==
    IF i.topLimit /\ i.bottomLimit
    THEN Latch(l, LimitViolation)
    ELSE LET l1 == IF st = Lifting /\ i.topLimit THEN Latch(l, LimitViolation) ELSE l
             l2 == IF st = Lowering /\ i.bottomLimit THEN Latch(l1, LimitViolation) ELSE l1
             l3 == IF i.cmdUp /\ i.topLimit THEN Latch(l2, LimitViolation) ELSE l2
             l4 == IF i.cmdDown /\ i.bottomLimit THEN Latch(l3, LimitViolation) ELSE l3
         IN  l4

\* Step 1 as a whole
LatchFaults(st, l, i) == LatchLimits(st, LatchOverload(LatchEstop(l, i), i), i)

\* mutant: the E-stop test of the reset has lost its negation
ResetGateEstopRequired(i, v) ==
    i.resetFault /\ i.estop /\ Abs(v) < safeStopSpeedEps

\* mutant: the reset does not test the E-stop
ResetGateNoEstop(i, v) == i.resetFault /\ Abs(v) < safeStopSpeedEps

\* mutant: the reset does not test the plant velocity
ResetGateNoSpeed(i, v) == i.resetFault /\ ~i.estop

\* Step 2, the condition of the reset
ResetGate(i, v) == i.resetFault /\ ~i.estop /\ Abs(v) < safeStopSpeedEps

\* mutant: the reset is evaluated before the faults are latched
AfterResetFirst(st, l, i, v) ==
    LatchFaults(st, IF ResetGate(i, v) THEN Clear ELSE l, i)

\* Steps 1 and 2: latched after the reset test
AfterReset(st, l, i, v) ==
    IF ResetGate(i, v) THEN Clear ELSE LatchFaults(st, l, i)

\* mutant: the commands are examined before the fault latch
NextStateCmdFirst(l, i) ==
    IF i.cmdUp /\ ~i.cmdDown /\ ~i.topLimit THEN Lifting
    ELSE IF i.cmdDown /\ ~i.cmdUp /\ ~i.bottomLimit THEN Lowering
    ELSE IF hasFault(l) THEN Faulted
    ELSE Holding

\* mutant: the up command does not test the down command
NextStateUpWins(l, i) ==
    IF hasFault(l) THEN Faulted
    ELSE IF i.cmdUp /\ ~i.topLimit THEN Lifting
    ELSE IF i.cmdDown /\ ~i.cmdUp /\ ~i.bottomLimit THEN Lowering
    ELSE Holding

\* mutant: an explicit hold command overrides the up and down commands
NextStateHoldOverrides(l, i) ==
    IF hasFault(l) THEN Faulted
    ELSE IF i.cmdHold THEN Holding
    ELSE IF i.cmdUp /\ ~i.cmdDown /\ ~i.topLimit THEN Lifting
    ELSE IF i.cmdDown /\ ~i.cmdUp /\ ~i.bottomLimit THEN Lowering
    ELSE Holding

\* mutant: Step 3 does not test the limit switches
NextStateNoLimit(l, i) ==
    IF hasFault(l) THEN Faulted
    ELSE IF i.cmdUp /\ ~i.cmdDown THEN Lifting
    ELSE IF i.cmdDown /\ ~i.cmdUp THEN Lowering
    ELSE Holding

\* Step 3: the state computed from the latch and the inputs
NextState(l, i) ==
    IF hasFault(l) THEN Faulted
    ELSE IF i.cmdUp /\ ~i.cmdDown /\ ~i.topLimit THEN Lifting
    ELSE IF i.cmdDown /\ ~i.cmdUp /\ ~i.bottomLimit THEN Lowering
    ELSE Holding

\* Step 4: whether the switch drives the motor in state st
Driving(st, i) ==
    \/ st = Lifting /\ ~i.topLimit
    \/ st = Lowering /\ ~i.bottomLimit

\* mutant: the lowering speed is written without its sign
TargetVelOfLowerSign(st, i) ==
    IF st = Lifting /\ ~i.topLimit THEN liftSpeed
    ELSE IF st = Lowering /\ ~i.bottomLimit THEN lowerSpeed
    ELSE 0

\* Step 4: plant.targetVel as written by the switch
TargetVelOf(st, i) ==
    IF st = Lifting /\ ~i.topLimit THEN liftSpeed
    ELSE IF st = Lowering /\ ~i.bottomLimit THEN 0 - lowerSpeed
    ELSE 0

\* mutant: the brake output keeps its initial value when the motor drives
OutputsOfBrakeStuck(st, i) ==
    [motorEnable  |-> Driving(st, i),
     motorDir     |-> IF st = Lifting /\ ~i.topLimit THEN 1
                      ELSE IF st = Lowering /\ ~i.bottomLimit THEN -1
                      ELSE 0,
     brakeEngaged |-> TRUE,
     faultLamp    |-> (st = Faulted)]

\* mutant: the fault lamp is lit whenever the brake is engaged
OutputsOfLampOnBrake(st, i) ==
    [motorEnable  |-> Driving(st, i),
     motorDir     |-> IF st = Lifting /\ ~i.topLimit THEN 1
                      ELSE IF st = Lowering /\ ~i.bottomLimit THEN -1
                      ELSE 0,
     brakeEngaged |-> ~Driving(st, i),
     faultLamp    |-> ~Driving(st, i)]

\* Step 4: the Outputs returned
OutputsOf(st, i) ==
    [motorEnable  |-> Driving(st, i),
     motorDir     |-> IF st = Lifting /\ ~i.topLimit THEN 1
                      ELSE IF st = Lowering /\ ~i.bottomLimit THEN -1
                      ELSE 0,
     brakeEngaged |-> ~Driving(st, i),
     faultLamp    |-> (st = Faulted)]

\* update(dt, i, plant) on a controller holding (st, l), called with
\* plant.velocity = v: the new state and latch, the value written to
\* plant.targetVel and the Outputs returned; dt is not read
update(st, l, i, v) ==
    LET l2 == AfterReset(st, l, i, v)
        s2 == NextState(l2, i)
    IN  [state |-> s2, latched |-> l2, targetVel |-> TargetVelOf(s2, i),
         out |-> OutputsOf(s2, i)]

\* a command held against its own limit switch (lines 150-151)
CmdIntoLimit(i) == (i.cmdUp /\ i.topLimit) \/ (i.cmdDown /\ i.bottomLimit)

\* the effect of r = update(state, latched, i, v) on the controller, with
\* the history of the call
Controller(i, v, r) ==
    /\ pre' = [state |-> state, latched |-> latched, velocity |-> v,
               out |-> out, targetVel |-> r.targetVel, called |-> TRUE,
               same |-> (pre.called /\ i = in /\ v = pre.velocity),
               intoLimit |-> (pre.called /\ CmdIntoLimit(in))]
    /\ latched' = r.latched
    /\ state' = r.state
    /\ out' = r.out
    /\ lastTopLimit' = i.topLimit
    /\ lastBottomLimit' = i.bottomLimit
    /\ in' = i

---------------------------------------------------------------------------
(* LiftPlant::step(dt) with dt = 1/DtInv *)

maxDv == (accel * 1000) \div DtInv

\* mutant: the velocity change is clamped to [0, maxDv]
StepVelocityNoBrake(v, tv) == v + Clamp(tv - v, 0, maxDv)

\* mutant: the velocity jumps to targetVel
StepVelocityInstant(v, tv) == tv

\* velocity after the bounded approach to targetVel
StepVelocity(v, tv) == v + Clamp(tv - v, 0 - maxDv, maxDv)

\* position after integration and clamping
StepPosition(p, v) == Clamp(p + v, 0, PosMax)

\* mutant: the test at the top end of travel is missing
StepStopBottomOnly(p, v) == IF p <= 0 /\ v < 0 THEN 0 ELSE v

\* velocity after the end-of-travel test
StepStop(p, v) ==
    IF p <= 0 /\ v < 0 THEN 0
    ELSE IF p >= PosMax /\ v > 0 THEN 0
    ELSE v

---------------------------------------------------------------------------
(* State after construction: LiftPlant{}, LiftController{}, Inputs{},      *)
(* Outputs{} in main                                                       *)

Init ==
    /\ state = Holding
    /\ latched = None
    /\ lastTopLimit = FALSE
    /\ lastBottomLimit = TRUE
    /\ position = 0
    /\ velocity = 0
    /\ targetVel = 0
    /\ in = InputsInit
    /\ out = OutputsInit
    /\ inputPoll = 0
    /\ quit = FALSE
    /\ pre = [state |-> Holding, latched |-> None, velocity |-> 0,
              out |-> OutputsInit, targetVel |-> 0, called |-> FALSE,
              same |-> FALSE, intoLimit |-> FALSE]
    /\ fmTrace = <<>>
    /\ faultScans = 0

---------------------------------------------------------------------------
(* Spec: update called by an arbitrary caller, with any Inputs and any     *)
(* plant velocity                                                          *)

LoadValues == {maxLoadKg, maxLoadKg + 1}

InputsSet ==
    [cmdUp : BOOLEAN, cmdDown : BOOLEAN, cmdHold : BOOLEAN, estop : BOOLEAN,
     resetFault : BOOLEAN, topLimit : BOOLEAN, bottomLimit : BOOLEAN,
     loadKg : LoadValues]

TestVelocities == {0 - safeStopSpeedEps, 0, safeStopSpeedEps - 1}

\* a caller hands update any Inputs and a plant with any velocity
CallUpdate ==
    \E i \in InputsSet, v \in TestVelocities :
    \E r \in {update(state, latched, i, v)} :
        /\ velocity' = v
        /\ Controller(i, v, r)
        /\ targetVel' = r.targetVel
        /\ UNCHANGED <<position, inputPoll, quit, fmTrace, faultScans>>

Next == CallUpdate

Spec == Init /\ [][Next]_vars

---------------------------------------------------------------------------
(* SpecLoop: the scan loop of main.  One step is one iteration of the      *)
(* loop body; the status print and the sleep change no state.              *)

\* the lines getline can deliver; "other" stands for help, an unknown
\* command, an unparsable load and a failed read, which change no input
LoopLoads == {0, maxLoadKg + 1}

Lines ==
    [cmd : {"u", "d", "h", "s", "e", "r", "q", "other"}, kg : {0}]
        \cup [cmd : {"l"}, kg : LoopLoads]

\* the command dispatch of main applied to the inputs i
ApplyLine(i, line) ==
    CASE line.cmd = "u" -> [i EXCEPT !.cmdUp = TRUE, !.cmdDown = FALSE, !.cmdHold = FALSE]
      [] line.cmd = "d" -> [i EXCEPT !.cmdDown = TRUE, !.cmdUp = FALSE, !.cmdHold = FALSE]
      [] line.cmd = "h" -> [i EXCEPT !.cmdHold = TRUE, !.cmdUp = FALSE, !.cmdDown = FALSE]
      [] line.cmd = "s" -> [i EXCEPT !.cmdUp = FALSE, !.cmdDown = FALSE, !.cmdHold = FALSE]
      [] line.cmd = "e" -> [i EXCEPT !.estop = ~i.estop]
      [] line.cmd = "r" -> [i EXCEPT !.resetFault = TRUE]
      [] line.cmd = "l" -> [i EXCEPT !.loadKg = line.kg]
      [] OTHER -> i

\* the count of faulted scans is kept up to this value
FaultScansCap == 7

\* the limit switches as main derives them from the plant position
Sense(i, p) ==
    [i EXCEPT !.bottomLimit = (p <= BottomSwitch), !.topLimit = (p >= TopSwitch)]

\* the rest of one iteration once the operator inputs i are settled: derived
\* inputs, controller scan, brake enforcement, plant.step(dt)
ScanAndStep(i) ==
    \E si \in {Sense(i, position)} :
    \E r \in {update(state, latched, si, velocity)} :
    \E tv \in {IF r.out.brakeEngaged THEN 0 ELSE r.targetVel} :
    \E v1 \in {StepVelocity(velocity, tv)} :
    \E p1 \in {StepPosition(position, v1)} :
        /\ Controller(si, velocity, r)
        /\ targetVel' = tv
        /\ position' = p1
        /\ velocity' = StepStop(p1, v1)
        /\ faultScans' = IF r.latched = None THEN 0
                          ELSE IF faultScans < FaultScansCap THEN faultScans + 1
                          ELSE faultScans

\* an iteration of the loop that reads a line
IterationRead ==
    /\ ~quit
    /\ inputPoll = 0
    /\ \E line \in Lines :
        /\ ScanAndStep(ApplyLine([in EXCEPT !.resetFault = FALSE], line))
        /\ quit' = (line.cmd = "q")
    /\ inputPoll' = (inputPoll + 1) % PollPeriod
    /\ UNCHANGED fmTrace

\* an iteration of the loop that reads nothing
IterationSkip ==
    /\ ~quit
    /\ inputPoll # 0
    /\ ScanAndStep([in EXCEPT !.resetFault = FALSE])
    /\ inputPoll' = (inputPoll + 1) % PollPeriod
    /\ UNCHANGED <<quit, fmTrace>>

NextLoop == IterationRead \/ IterationSkip

SpecLoop == Init /\ [][NextLoop]_vars

---------------------------------------------------------------------------
(* SpecScenarioA: the body of the scan loop (derived limit switches,       *)
(* update, brake enforcement, plant.step) driven from rest at the bottom   *)
(* by a caller that asserts cmdUp on every scan until the plant stands at  *)
(* the top switch, and drops it from then on                               *)

ScenarioAScan ==
    /\ ScanAndStep([in EXCEPT !.resetFault = FALSE,
                              !.cmdUp = (position < TopSwitch)])
    /\ UNCHANGED <<inputPoll, quit, fmTrace>>

NextScenarioA == ScenarioAScan

SpecScenarioA == Init /\ [][NextScenarioA]_vars

---------------------------------------------------------------------------
(* SpecFM: a FaultManager used on its own; fmTrace records the latch calls *)
(* made since construction or the last clear()                             *)

MaxLatchCalls == 4

FMLatch ==
    /\ Len(fmTrace) < MaxLatchCalls
    /\ \E f \in FaultCode :
        /\ latched' = Latch(latched, f)
        /\ fmTrace' = Append(fmTrace,
                             [code |-> f, before |-> latched,
                              after |-> Latch(latched, f)])
    /\ UNCHANGED <<state, lastTopLimit, lastBottomLimit, position, velocity,
                   targetVel, in, out, inputPoll, quit, pre, faultScans>>

FMClear ==
    /\ latched' = Clear
    /\ fmTrace' = <<>>
    /\ UNCHANGED <<state, lastTopLimit, lastBottomLimit, position, velocity,
                   targetVel, in, out, inputPoll, quit, pre, faultScans>>

NextFM == FMLatch \/ FMClear

SpecFM == Init /\ [][NextFM]_vars

---------------------------------------------------------------------------
(* Properties.  They are written over the variables and the history `pre`  *)
(* of the last update call, not over the operators that model update.      *)

\* the reset condition as the last update call saw it
GateHeld ==
    in.resetFault /\ ~in.estop /\ Abs(pre.velocity) < safeStopSpeedEps

\* a fault condition of Step 1 was present in the last update call
FaultDetected ==
    \/ in.estop
    \/ in.loadKg > maxLoadKg
    \/ in.topLimit /\ in.bottomLimit
    \/ pre.state = Lifting /\ in.topLimit
    \/ pre.state = Lowering /\ in.bottomLimit
    \/ in.cmdUp /\ in.topLimit
    \/ in.cmdDown /\ in.bottomLimit

\* the Outputs of a safe stop with the fault lamp lit
FaultOutputs ==
    [motorEnable |-> FALSE, motorDir |-> 0, brakeEngaged |-> TRUE,
     faultLamp |-> TRUE]

\* C1: every Outputs value returned by update has motorEnable = TRUE iff
\* motorDir # 0 iff brakeEngaged = FALSE, with motorDir one of -1, 0, +1.
C1_OutputExclusivity ==
    /\ out.motorDir \in {-1, 0, 1}
    /\ out.motorEnable <=> (out.motorDir # 0)
    /\ (out.motorDir # 0) <=> ~out.brakeEngaged

C1_Witness ==
    /\ pre.called
    /\ pre.state = Lifting
    /\ out.motorEnable /\ out.motorDir = -1 /\ ~out.brakeEngaged

\* C2: in one update call a fault latched before the call or in its Step 1
\* is gone on return only if resetFault, not estop and |velocity| <
\* safeStopSpeedEps all held in that call; when one of them fails the fault
\* is still latched on return, with a priority not below the one on entry.
C2_ResetGating ==
    pre.called =>
        /\ ((pre.latched # None \/ FaultDetected) /\ latched = None) => GateHeld
        /\ (~GateHeld /\ (pre.latched # None \/ FaultDetected)) => latched # None
        /\ ~GateHeld => latched >= pre.latched

C2_Witness ==
    /\ pre.called
    /\ pre.latched = Overload
    /\ in.resetFault /\ ~in.estop /\ Abs(pre.velocity) >= safeStopSpeedEps
    /\ latched = Overload

\* C3: an update call entered with a fault latched and without the reset
\* condition leaves state = Faulted, returns motor off, direction 0, brake
\* on, lamp on, and writes plant.targetVel = 0, whatever the commands, the
\* limit inputs and the load.
C3_FaultedUntilReset ==
    (pre.called /\ pre.latched # None /\ ~GateHeld) =>
        /\ state = Faulted
        /\ out = FaultOutputs
        /\ pre.targetVel = 0
        /\ latched # None

C3_Witness ==
    /\ pre.called
    /\ pre.latched = LimitViolation /\ pre.state = Faulted
    /\ in.cmdUp /\ ~in.cmdDown /\ ~in.topLimit /\ ~in.bottomLimit
    /\ in.resetFault /\ ~in.estop /\ ~GateHeld
    /\ in.loadKg <= maxLoadKg
    /\ state = Faulted

\* C4: over any sequence of latch calls with no clear() in between, the
\* priority of latched never decreases; a call changes latched exactly when
\* its code has a higher priority than the latched one, and then latched is
\* that code; latch(None) and a latch of the same or a lower code change
\* nothing.
C4_PriorityMonotone ==
    /\ \A k \in 1..Len(fmTrace) :
        /\ fmTrace[k].after >= fmTrace[k].before
        /\ fmTrace[k].after =
               IF fmTrace[k].code > fmTrace[k].before
               THEN fmTrace[k].code ELSE fmTrace[k].before
        /\ fmTrace[k].code = None => fmTrace[k].after = fmTrace[k].before
    /\ \A j, k \in 1..Len(fmTrace) :
        j < k => fmTrace[j].after <= fmTrace[k].after
    /\ Len(fmTrace) > 0 => latched = fmTrace[Len(fmTrace)].after

C4_Witness ==
    /\ Len(fmTrace) = 3
    /\ fmTrace[1].code = Overload /\ fmTrace[1].after = Overload
    /\ fmTrace[2].code = LimitViolation /\ fmTrace[2].after = Overload
    /\ fmTrace[3].code = None /\ fmTrace[3].after = Overload
    /\ latched = Overload

\* C5: after an update call with estop = TRUE the latched fault is
\* EmergencyStop, the state is Faulted and the outputs have motor off, brake
\* on and lamp on, whatever the fault latched before, the load, the limits,
\* the commands and resetFault.
C5_EstopDominates ==
    (pre.called /\ in.estop) =>
        /\ latched = EmergencyStop
        /\ state = Faulted
        /\ ~out.motorEnable /\ out.brakeEngaged /\ out.faultLamp

C5_Witness ==
    /\ pre.called
    /\ pre.latched = LimitViolation
    /\ in.estop /\ in.resetFault /\ pre.velocity = 0
    /\ in.loadKg > maxLoadKg /\ in.topLimit /\ in.bottomLimit /\ in.cmdUp
    /\ latched = EmergencyStop

\* C6 as stated: every update call with loadKg > maxLoadKg returns with
\* Overload or a higher fault latched and state Faulted, for every
\* combination of the other inputs; a call with loadKg = maxLoadKg and no
\* other fault condition latches nothing.
C6_Original ==
    pre.called =>
        /\ in.loadKg > maxLoadKg => (latched >= Overload /\ state = Faulted)
        /\ (in.loadKg = maxLoadKg /\ pre.latched = None /\ ~FaultDetected)
               => latched = None

\* C6: an update call with loadKg > maxLoadKg in which the reset condition
\* does not hold returns with Overload or a higher fault latched and state
\* Faulted; when the reset condition holds the latch is cleared and the
\* state is not Faulted; a call with loadKg <= maxLoadKg never raises the
\* latch to Overload, and with no other fault condition latches nothing.
C6_OverloadInterlock ==
    pre.called =>
        /\ (in.loadKg > maxLoadKg /\ ~GateHeld)
               => (latched >= Overload /\ state = Faulted)
        /\ (in.loadKg > maxLoadKg /\ GateHeld)
               => (latched = None /\ state # Faulted)
        /\ (in.loadKg <= maxLoadKg /\ pre.latched # Overload)
               => latched # Overload
        /\ (in.loadKg = maxLoadKg /\ pre.latched = None /\ ~FaultDetected)
               => latched = None

C6_Witness ==
    /\ pre.called
    /\ pre.latched = None /\ pre.state = Holding
    /\ in.loadKg = maxLoadKg + 1
    /\ in.resetFault /\ ~GateHeld /\ ~in.estop
    /\ latched = Overload /\ state = Faulted

\* C7 as stated: every update call with a command held against its limit
\* switch returns with LimitViolation or a higher fault latched, for every
\* combination of the other inputs, and the state is Faulted no later than
\* after the following call.
C7_Original ==
    /\ (pre.called /\ CmdIntoLimit(in)) => latched >= LimitViolation
    /\ pre.intoLimit => (pre.state = Faulted \/ state = Faulted)

\* C7: an update call with a command held against its limit switch in which
\* the reset condition does not hold returns with LimitViolation or a higher
\* fault latched and with state Faulted already; when the reset condition
\* holds in that call the latch is cleared and the call returns Holding.
C7_LimitInterlock ==
    (pre.called /\ CmdIntoLimit(in)) =>
        /\ ~GateHeld => (latched >= LimitViolation /\ state = Faulted)
        /\ GateHeld => (latched = None /\ state = Holding)

C7_Witness ==
    /\ pre.called
    /\ pre.latched = None /\ pre.state = Holding
    /\ in.cmdUp /\ in.topLimit /\ ~in.bottomLimit /\ ~in.cmdDown
    /\ ~in.estop /\ in.loadKg <= maxLoadKg /\ ~GateHeld
    /\ latched = LimitViolation /\ state = Faulted

\* C8 as stated: in the scan loop driven from rest at the bottom with cmdUp
\* asserted on every scan until the lift is at the top, the state is
\* Holding or Lifting on every scan, it is Holding on the scans that see
\* topLimit, and LimitViolation is never latched.
C8_ScenarioA ==
    /\ state \in {Holding, Lifting}
    /\ latched # LimitViolation
    /\ (pre.called /\ in.topLimit) => state = Holding

\* C9: in the scan loop, the update that sees estop after a scan that left
\* the state Lifting with a positive velocity returns motor off, brake on,
\* lamp on with state Faulted; and on every scan that ends with
\* EmergencyStop latched the plant step makes |velocity| strictly smaller,
\* or leaves it 0 when it was 0.
C9_EstopWhileLifting ==
    pre.called =>
        /\ (pre.state = Lifting /\ pre.velocity > 0 /\ in.estop) =>
               /\ state = Faulted
               /\ ~out.motorEnable /\ out.brakeEngaged /\ out.faultLamp
        /\ latched = EmergencyStop =>
               IF pre.velocity = 0
               THEN velocity = 0
               ELSE Abs(velocity) < Abs(pre.velocity)

C9_Witness ==
    /\ pre.called
    /\ pre.state = Lifting /\ pre.velocity = liftSpeed /\ in.estop
    /\ state = Faulted /\ latched = EmergencyStop
    /\ 0 < velocity /\ velocity < pre.velocity

\* C10: two update calls in a row with the same Inputs and the plant held
\* at velocity 0 return the same Outputs and leave the same controller
\* state and latched fault.
C10_Idempotent ==
    (pre.called /\ pre.same /\ pre.velocity = 0) =>
        /\ out = pre.out
        /\ state = pre.state
        /\ latched = pre.latched

C10_Witness ==
    /\ pre.called /\ pre.same /\ pre.velocity = 0
    /\ in.resetFault /\ ~in.estop /\ in.topLimit /\ ~in.bottomLimit
    /\ in.cmdUp /\ in.loadKg > maxLoadKg
    /\ state = Holding /\ latched = None /\ out = pre.out

\* C11: in the scan loop, when update returns brakeEngaged = TRUE it has
\* itself written plant.targetVel = 0, so the brake enforcement of the loop
\* leaves targetVel as update wrote it; when update returns brakeEngaged =
\* FALSE it has written +liftSpeed with motorDir = +1 or -lowerSpeed with
\* motorDir = -1.
C11_BrakeEnforcementRedundant ==
    pre.called =>
        /\ out.brakeEngaged => pre.targetVel = 0
        /\ targetVel = pre.targetVel
        /\ ~out.brakeEngaged =>
               \/ out.motorDir = 1 /\ pre.targetVel = liftSpeed
               \/ out.motorDir = -1 /\ pre.targetVel = 0 - lowerSpeed

C11_Witness ==
    /\ pre.called
    /\ pre.state = Lowering /\ pre.velocity < 0
    /\ in.estop /\ out.brakeEngaged
    /\ pre.targetVel = 0 /\ targetVel = 0
    /\ velocity < 0 /\ position > BottomSwitch

\* C12: after every update the state is Faulted when a fault is latched,
\* else Lifting when cmdUp, not cmdDown and not topLimit, else Lowering when
\* cmdDown, not cmdUp and not bottomLimit, else Holding: a function of the
\* latch after Steps 1-2 and of the inputs of the call, not of the state
\* before it.
C12_StateFunction ==
    pre.called =>
        state = IF latched # None THEN Faulted
                ELSE IF in.cmdUp /\ ~in.cmdDown /\ ~in.topLimit THEN Lifting
                ELSE IF in.cmdDown /\ ~in.cmdUp /\ ~in.bottomLimit THEN Lowering
                ELSE Holding

C12_Witness ==
    /\ pre.called
    /\ pre.state = Lifting
    /\ in.cmdUp /\ in.cmdDown /\ ~in.topLimit /\ ~in.bottomLimit
    /\ latched = None
    /\ state = Holding

\* C13: an update call that finds topLimit without bottomLimit after a scan
\* that ended Lifting (or bottomLimit without topLimit after a scan that
\* ended Lowering) latches LimitViolation or keeps a higher fault, also with
\* cmdUp and cmdDown both false, and ends Faulted unless the reset condition
\* holds in that call.
C13_LimitUsesPreviousState ==
    (/\ pre.called
     /\ \/ pre.state = Lifting /\ in.topLimit /\ ~in.bottomLimit
        \/ pre.state = Lowering /\ in.bottomLimit /\ ~in.topLimit
     /\ ~GateHeld) =>
        /\ latched >= LimitViolation
        /\ state = Faulted
        /\ (~in.estop /\ in.loadKg <= maxLoadKg) => latched = LimitViolation

C13_Witness ==
    /\ pre.called
    /\ pre.state = Lowering /\ pre.latched = None
    /\ in.bottomLimit /\ ~in.topLimit
    /\ ~in.cmdUp /\ ~in.cmdDown /\ ~in.estop /\ ~in.resetFault
    /\ in.loadKg <= maxLoadKg
    /\ latched = LimitViolation /\ state = Faulted

\* C14: after every plant.step the position is within [0, 1], and the plant
\* is never at or below 0 with a negative velocity nor at or above 1 with a
\* positive velocity.
C14_PlantBounds ==
    /\ position >= 0 /\ position <= PosMax
    /\ ~(position <= 0 /\ velocity < 0)
    /\ ~(position >= PosMax /\ velocity > 0)

C14_Witness ==
    /\ pre.called
    /\ position = PosMax /\ velocity = 0
    /\ pre.velocity = liftSpeed /\ targetVel = liftSpeed
    /\ state = Lifting

\* C15 as stated: on every plant.step of the scan loop the velocity changes
\* by at most accel * dt and does not pass targetVel.
C15_Original ==
    pre.called =>
        /\ Abs(velocity - pre.velocity) <= maxDv
        /\ pre.velocity < targetVel => velocity <= targetVel
        /\ pre.velocity > targetVel => velocity >= targetVel

\* C15: on every plant.step of the scan loop the velocity does not pass
\* targetVel, and it changes by at most accel * dt unless the step ends at
\* an end of travel (position 0 or 1), where the velocity is then 0
\* whatever it was before.
C15_BoundedAcceleration ==
    pre.called =>
        /\ \/ Abs(velocity - pre.velocity) <= maxDv
           \/ (position = 0 \/ position = PosMax) /\ velocity = 0
        /\ (position > 0 /\ position < PosMax)
               => velocity = pre.velocity
                             + Clamp(targetVel - pre.velocity, 0 - maxDv, maxDv)
        /\ pre.velocity < targetVel => velocity <= targetVel
        /\ pre.velocity > targetVel => velocity >= targetVel

C15_Witness ==
    /\ pre.called
    /\ pre.velocity = 0 - lowerSpeed /\ targetVel = liftSpeed
    /\ velocity = maxDv - lowerSpeed
    /\ position > 0 /\ position < PosMax

\* C16: cmdHold does not influence update: from the controller state and
\* plant velocity on entry to any call, the same call with cmdHold inverted
\* gives the same state, latched fault, Outputs and plant.targetVel; two
\* runs that differ only in cmdHold therefore agree scan by scan.
C16_HoldIgnored ==
    pre.called =>
        LET r == update(pre.state, pre.latched,
                        [in EXCEPT !.cmdHold = ~in.cmdHold], pre.velocity)
        IN  /\ r.state = state
            /\ r.latched = latched
            /\ r.out = out
            /\ r.targetVel = pre.targetVel

C16_Witness ==
    /\ pre.called
    /\ in.cmdHold /\ in.cmdUp /\ ~in.cmdDown /\ ~in.topLimit
    /\ latched = None
    /\ state = Lifting /\ out.motorEnable /\ pre.targetVel = liftSpeed

\* C17: no update call returns motorDir = +1 or writes targetVel > 0 with
\* topLimit asserted, nor motorDir = -1 or targetVel < 0 with bottomLimit
\* asserted; after the call state = Lifting implies topLimit = FALSE and
\* state = Lowering implies bottomLimit = FALSE.
C17_NeverIntoLimit ==
    pre.called =>
        /\ in.topLimit => (out.motorDir # 1 /\ pre.targetVel <= 0)
        /\ in.bottomLimit => (out.motorDir # -1 /\ pre.targetVel >= 0)
        /\ state = Lifting => ~in.topLimit
        /\ state = Lowering => ~in.bottomLimit

C17_Witness ==
    /\ pre.called
    /\ in.cmdUp /\ ~in.cmdDown /\ in.topLimit /\ ~in.bottomLimit
    /\ GateHeld /\ latched = None
    /\ state = Holding /\ out.motorDir = 0 /\ pre.targetVel = 0

\* C18: after every update call state = Faulted iff a fault is latched iff
\* the returned faultLamp is lit.
C18_FaultIndicationsAgree ==
    pre.called =>
        /\ (state = Faulted) <=> (latched # None)
        /\ (latched # None) <=> out.faultLamp

C18_Witness ==
    /\ pre.called
    /\ pre.latched = None /\ pre.state = Lifting
    /\ in.loadKg > maxLoadKg /\ ~in.estop /\ ~GateHeld
    /\ latched = Overload /\ state = Faulted /\ out.faultLamp

\* the scans a plant at full speed needs to stop under the brake
StopScans == (liftSpeed + maxDv - 1) \div maxDv

\* the operator inputs of C19: E-stop released, load within the limit, no
\* up or down command
QuietInputs ==
    ~in.estop /\ in.loadKg <= maxLoadKg /\ ~in.cmdUp /\ ~in.cmdDown

\* C19: in the scan loop the plant speed never exceeds liftSpeed and the
\* plant stands still after at most StopScans consecutive scans that end
\* with a fault latched; a scan entered with a fault latched and the plant
\* at rest, with resetFault, E-stop released, load within the limit and no
\* up or down command, ends with no fault latched, state Holding, lamp off
\* and brake on; and a scan entered in Holding with no fault and those
\* inputs latches nothing and stays Holding.
C19_Recoverable ==
    /\ Abs(velocity) <= liftSpeed
    /\ faultScans >= StopScans => velocity = 0
    /\ (pre.called /\ pre.latched # None /\ pre.velocity = 0
            /\ in.resetFault /\ QuietInputs) =>
           /\ latched = None
           /\ state = Holding
           /\ ~out.faultLamp /\ out.brakeEngaged
    /\ (pre.called /\ pre.latched = None /\ pre.state = Holding
            /\ QuietInputs) =>
           /\ latched = None
           /\ state = Holding

C19_Witness ==
    /\ pre.called
    /\ pre.latched = LimitViolation /\ pre.state = Faulted
    /\ pre.velocity = 0 /\ position = PosMax
    /\ in.resetFault /\ QuietInputs /\ in.topLimit
    /\ latched = None /\ state = Holding
    /\ ~out.faultLamp /\ out.brakeEngaged

\* a reachable state of C19's first part: a fault has been latched for
\* StopScans scans after the lift was moving at full speed
C19_StoppedWitness ==
    /\ faultScans = StopScans
    /\ velocity = 0 /\ pre.velocity > 0
    /\ latched = EmergencyStop

=============================================================================
